---- MODULE Spec2Model ----
(***************************************************************************)
(* google-home-mcp: the OAuth2 credential manager (auth.ts, GoogleAuth)    *)
(* and the tool dispatcher (index.ts, the CallToolRequestSchema handler).  *)
(*                                                                         *)
(* The process state is the GoogleAuth object (oauth2Client and the        *)
(* credentials it holds), the dispatcher's cached homegraph handle, the    *)
(* files credentials.json and token.json, the GOOGLE_CREDENTIALS           *)
(* environment variable, and the tool calls in flight.  A tool call is an  *)
(* async handler: it runs atomically up to each await, so a call of        *)
(* `authenticate` is split at `await getToken(code)` and inside            *)
(* `await fs.writeFile(...)` (the open with truncation, then the write),   *)
(* and other calls interleave at those points.                             *)
(***************************************************************************)
EXTENDS Integers, Sequences, FiniteSets, TLC

\* ------------------------------------------------------------- bounds
MaxCalls == 2       \* tool calls that can be in flight at once
MaxExchanges == 2   \* code exchanges started over a behaviour
MaxRestarts == 1    \* process restarts over a behaviour

Calls == 1..MaxCalls
\* the TokenSets the provider grants: the k-th grant is TokenSet k
TokenIds == 1..MaxExchanges

\* ------------------------------------------------------------- TokenSet and token.json
\* A credentials object is identified by a number: 0 is the empty object {}
\* (no access_token), t > 0 is the t-th TokenSet granted by the provider.
EmptyCredentials == 0

\* oauth2Client.credentials.access_token is truthy
HasAccessToken(t) == t > 0

\* Odd TokenSets carry a refresh_token (Google sends it on the first consent
\* only), so their JSON text is one chunk longer.
TokLen(t) == IF t = 0 THEN 1 ELSE 1 + (t % 2)

\* JSON.stringify(tokens, null, 2): the text as a sequence of chunks <<t, i>>
Stringify(t) == [i \in 1..TokLen(t) |-> <<t, i>>]

Garbage == <<-1, 1>>     \* text that is not JSON

\* JSON.parse of the text of token.json: the object, or a SyntaxError
ParseOk(data) == \E t \in {0} \cup TokenIds : data = Stringify(t)
Parse(data) == CHOOSE t \in {0} \cup TokenIds : data = Stringify(t)

\* token.json: missing, or a file with its text
AbsentFile == [exists |-> FALSE, data |-> <<>>]
FileOf(data) == [exists |-> TRUE, data |-> data]

\* fs.readFile(tokenPath) then JSON.parse: succeeds iff the file exists and parses
TokenReadable(f) == f.exists /\ ParseOk(f.data)

\* a write of `text` at position 0 of a file whose text is `data`: the bytes
\* of `data` beyond the end of `text` stay
WriteOver(data, text) ==
  IF Len(text) >= Len(data) THEN text
  ELSE text \o SubSeq(data, Len(text) + 1, Len(data))

\* ------------------------------------------------------------- credential sources
\* process.env.GOOGLE_CREDENTIALS and credentials.json, by what initialize()
\* can make of them: absent, a usable credential JSON, text that is not
\* JSON, or JSON with neither an `installed` nor a `web` object.
EnvValues == {"unset", "valid", "notjson", "noclient"}
FileValues == {"missing", "valid", "notjson", "noclient"}

\* the combinations a process is started with: each path of lines 27-43
SourceChoices ==
  { <<"unset", "missing">>, <<"unset", "valid">>, <<"unset", "notjson">>,
    <<"unset", "noclient">>, <<"valid", "missing">>, <<"valid", "valid">>,
    <<"notjson", "valid">>, <<"noclient", "valid">> }

Null == "null"
EnvClient == "client-env"      \* the OAuth2Client built from GOOGLE_CREDENTIALS
FileClient == "client-file"    \* the OAuth2Client built from credentials.json

\* initialize(), lines 25-49: the client it builds, and how it leaves when
\* it builds none ("return": the inner catch; "caught": the outer catch).
LoadClientDefault(env, file) ==
  CASE env = "valid" -> [client |-> EnvClient, exit |-> "none"]
    [] env \in {"notjson", "noclient"} -> [client |-> Null, exit |-> "caught"]
    [] file = "valid" -> [client |-> FileClient, exit |-> "none"]
    [] OTHER -> [client |-> FileClient, exit |-> "none"]

LoadClientFileFirst(env, file) ==
  CASE file = "valid" -> [client |-> FileClient, exit |-> "none"]
    [] env = "valid" -> [client |-> EnvClient, exit |-> "none"]
    [] env \in {"notjson", "noclient"} -> [client |-> Null, exit |-> "caught"]
    [] file \in {"missing", "notjson"} -> [client |-> Null, exit |-> "return"]
    [] OTHER -> [client |-> Null, exit |-> "caught"]

LoadClientFallback(env, file) ==
  CASE env = "valid" -> [client |-> EnvClient, exit |-> "none"]
    [] file = "valid" -> [client |-> FileClient, exit |-> "none"]
    [] env \in {"notjson", "noclient"} -> [client |-> Null, exit |-> "caught"]
    [] file \in {"missing", "notjson"} -> [client |-> Null, exit |-> "return"]
    [] OTHER -> [client |-> Null, exit |-> "caught"]

LoadClient(env, file) ==
  CASE env = "valid" -> [client |-> EnvClient, exit |-> "none"]
    [] env \in {"notjson", "noclient"} -> [client |-> Null, exit |-> "caught"]
    [] file = "valid" -> [client |-> FileClient, exit |-> "none"]
    [] file \in {"missing", "notjson"} -> [client |-> Null, exit |-> "return"]
    [] OTHER -> [client |-> Null, exit |-> "caught"]

\* initialize(), lines 51-57: the credentials the new client holds after the
\* attempt to restore token.json
RestoreNever(f) == EmptyCredentials

RestoreAlways(f) == IF f.exists THEN 1 ELSE EmptyCredentials

RestoreToken(f) == IF TokenReadable(f) THEN Parse(f.data) ELSE EmptyCredentials

\* ------------------------------------------------------------- GoogleAuth, the pure methods
NotInitialized == "OAuth2 client not initialized"

AuthEndpoint == "https://accounts.google.com/o/oauth2/v2/auth"
Scopes == <<"https://www.googleapis.com/auth/homegraph",
            "https://www.googleapis.com/auth/assistant-sdk-prototype">>

\* isAuthenticated()
IsAuthenticated(client, creds) == client # Null /\ HasAccessToken(creds)

\* getAuthUrl(): the URL, or the Error it throws
GetAuthUrlOnline(client) ==
  IF client = Null THEN [ok |-> FALSE, val |-> NotInitialized]
  ELSE [ok |-> TRUE,
        val |-> AuthEndpoint \o "?access_type=online&scope=" \o Scopes[1]
                \o "&response_type=code&client_id=" \o client]

GetAuthUrl(client) ==
  IF client = Null THEN [ok |-> FALSE, val |-> NotInitialized]
  ELSE [ok |-> TRUE,
        val |-> AuthEndpoint \o "?access_type=offline&scope=" \o Scopes[1] \o " "
                \o Scopes[2] \o "&response_type=code&client_id=" \o client]

\* getClient(): the handle, or the Error it throws
GetClient(client) ==
  IF client = Null THEN [ok |-> FALSE, val |-> NotInitialized]
  ELSE [ok |-> TRUE, val |-> client]

\* ------------------------------------------------------------- tool arguments and their schemas
\* A JSON value of an arguments mapping; a key the mapping lacks is Undefined.
Undefined == [t |-> "undefined", s |-> "", a |-> <<>>]
Str(x) == [t |-> "string", s |-> x, a |-> <<>>]
Num(x) == [t |-> "number", s |-> x, a |-> <<>>]
Arr(x) == [t |-> "array", s |-> "", a |-> x]

ArgKeys == {"code", "command", "devices", "deviceIds"}
NoArgs == [k \in ArgKeys |-> Undefined]
With(args, k, v) == [args EXCEPT ![k] = v]

\* the arguments mappings the calls are made with
ValidCode == With(NoArgs, "code", Str("valid-code"))
ExpiredCode == With(NoArgs, "code", Str("expired-code"))
NumericCode == With(NoArgs, "code", Num("42"))
Command == With(NoArgs, "command", Str("lights on"))
CommandOnDevices == With(Command, "devices", Arr(<<"lamp", "tv">>))
DeviceIds == With(NoArgs, "deviceIds", Arr(<<"lamp", "tv">>))
DeviceIdsAsString == With(NoArgs, "deviceIds", Str("lamp"))

ArgChoices == {NoArgs, ValidCode, ExpiredCode, NumericCode, Command, CommandOnDevices,
               DeviceIds, DeviceIdsAsString}

\* the mappings each tool is called with: those its schema tells apart, and
\* for a tool that reads no argument the empty mapping and one with a key
ArgsFor(name) ==
  CASE name = "authenticate" -> {NoArgs, ValidCode, ExpiredCode, NumericCode}
    [] name = "execute_command" -> {NoArgs, Command, CommandOnDevices, DeviceIds}
    [] name = "query_devices" -> {NoArgs, CommandOnDevices}
    [] name = "get_device_states" -> {NoArgs, DeviceIds, DeviceIdsAsString}
    [] OTHER -> {NoArgs, ValidCode}

\* A zod object schema: its fields in order, each <<key, type, optional>>.
AuthenticateSchema == << <<"code", "string", FALSE>> >>
ExecuteCommandSchema == << <<"command", "string", FALSE>>, <<"devices", "array", TRUE>> >>
QueryDevicesSchema == << <<"devices", "array", TRUE>> >>
GetDeviceStatesSchema == << <<"deviceIds", "array", FALSE>> >>

FieldOk(field, v) == (v.t = "undefined" /\ field[3]) \/ v.t = field[2]

\* the issue zod reports for a field that fails
Issue(field, v) ==
  "invalid_type at " \o field[1] \o ": "
    \o (IF v.t = "undefined" THEN "Required"
        ELSE "Expected " \o field[2] \o ", received " \o v.t)

RECURSIVE Issues(_, _)
Issues(schema, args) ==
  IF schema = <<>> THEN <<>>
  ELSE LET f == Head(schema)
           rest == Issues(Tail(schema), args)
       IN IF FieldOk(f, args[f[1]]) THEN rest ELSE <<Issue(f, args[f[1]])>> \o rest

RECURSIVE Join(_, _)
Join(strs, sep) ==
  IF strs = <<>> THEN ""
  ELSE IF Len(strs) = 1 THEN strs[1]
  ELSE strs[1] \o sep \o Join(Tail(strs), sep)

\* schema.parse(args): passes, or throws a ZodError carrying the issues
ZodParse(schema, args) ==
  LET issues == Issues(schema, args)
  IN [ok |-> issues = <<>>, val |-> Join(issues, "; ")]

IsValidationMessage(text) ==
  \E schema \in {AuthenticateSchema, ExecuteCommandSchema, QueryDevicesSchema,
                 GetDeviceStatesSchema} :
    \E args \in ArgChoices :
      ~ZodParse(schema, args).ok /\ text = ZodParse(schema, args).val

\* ------------------------------------------------------------- the tool catalog
CatalogWithoutListing == <<"execute_command", "query_devices", "get_device_states",
                           "get_auth_url", "authenticate">>

Catalog == <<"execute_command", "query_devices", "get_device_states",
             "list_devices", "get_auth_url", "authenticate">>
CatalogNames == {Catalog[i] : i \in 1..Len(Catalog)}
GatedNames == {"execute_command", "query_devices", "get_device_states", "list_devices"}
ToolNames == CatalogNames \cup {"unknown_op"}

\* the schema a gated tool parses its arguments with (list_devices parses nothing)
SchemaOf(name) ==
  CASE name = "execute_command" -> ExecuteCommandSchema
    [] name = "query_devices" -> QueryDevicesSchema
    [] name = "get_device_states" -> GetDeviceStatesSchema
    [] name = "authenticate" -> AuthenticateSchema
    [] OTHER -> <<>>

\* ------------------------------------------------------------- tool results
NotAuthenticated == "Not authenticated. Please authenticate first."
AlreadyAuthenticated == "Already authenticated with Google."
AuthenticatedOk == "Successfully authenticated with Google!"

NoResult == [kind |-> "none", content |-> <<>>]

\* a returned { content: [{ type: 'text', text }] }
Text(text) == [kind |-> "result", content |-> <<text>>]

\* an exception leaving the handler
Raised(msg) == [kind |-> "raised", content |-> <<msg>>]

\* the catch block of the handler, lines 228-237
EnvelopeRethrow(msg) == Raised(msg)

EnvelopeSwallow(msg) == Text(AuthenticatedOk)

Envelope(msg) == Text("Error: " \o msg)

\* `devices?.join(', ') || 'all devices'`
DevicesTextJoined(v) == Join(v.a, ", ")

DevicesText(v) ==
  IF v.t = "array" /\ Join(v.a, ", ") # "" THEN Join(v.a, ", ") ELSE "all devices"

\* the text a gated tool returns once it is past its checks
StubText(name, args) ==
  CASE name = "execute_command" ->
         "Command \"" \o args["command"].s \o "\" would be executed on devices: "
           \o DevicesText(args["devices"])
    [] name = "query_devices" -> "Querying devices: " \o DevicesText(args["devices"])
    [] name = "get_device_states" ->
         "Getting states for devices: " \o Join(args["deviceIds"].a, ", ")
    [] OTHER -> "Device listing would be implemented here"

\* case 'get_auth_url', lines 92-112
GetAuthUrlResultUngated(client, creds) ==
  IF GetAuthUrl(client).ok
  THEN Text("Please visit this URL to authorize the application:\n"
            \o GetAuthUrl(client).val)
  ELSE Envelope(GetAuthUrl(client).val)

GetAuthUrlResult(client, creds) ==
  IF ~IsAuthenticated(client, creds)
  THEN IF GetAuthUrl(client).ok
       THEN Text("Please visit this URL to authorize the application:\n"
                 \o GetAuthUrl(client).val)
       ELSE Envelope(GetAuthUrl(client).val)
  ELSE Text(AlreadyAuthenticated)

\* the cases of the gated tools, lines 131-223: the authentication check is the
\* first statement, the schema parse the second
GatedResultParseFirst(name, args, client, creds) ==
  IF ~ZodParse(SchemaOf(name), args).ok
  THEN Envelope(ZodParse(SchemaOf(name), args).val)
  ELSE IF ~IsAuthenticated(client, creds) THEN Envelope(NotAuthenticated)
  ELSE Text(StubText(name, args))

GatedResult(name, args, client, creds) ==
  IF ~IsAuthenticated(client, creds) THEN Envelope(NotAuthenticated)
  ELSE IF ~ZodParse(SchemaOf(name), args).ok
  THEN Envelope(ZodParse(SchemaOf(name), args).val)
  ELSE Text(StubText(name, args))

\* whether a gated tool reaches `this.homegraph = google.homegraph(...)`
GatedReachesApiUnchecked(name, args, client, creds) == TRUE

GatedReachesApi(name, args, client, creds) ==
  GatedResult(name, args, client, creds) = Text(StubText(name, args))

\* the default case, line 226, thrown inside the try
UnknownToolRaises(name) == Raised("Unknown tool: " \o name)

UnknownToolResult(name) == Envelope("Unknown tool: " \o name)

\* case 'authenticate', lines 114-116, up to the first await: the arguments
\* fail to parse, getTokenFromCode throws for want of a client, or the
\* outbound exchange starts
AuthenticateStartUnchecked(args, client) ==
  IF client = Null THEN "notconfigured" ELSE "exchange"

AuthenticateStartNoClient(args, client) ==
  IF ~ZodParse(AuthenticateSchema, args).ok THEN "invalid" ELSE "exchange"

AuthenticateStart(args, client) ==
  IF ~ZodParse(AuthenticateSchema, args).ok THEN "invalid"
  ELSE IF client = Null THEN "notconfigured"
  ELSE "exchange"

\* ------------------------------------------------------------- state
VARIABLES
  envCredentials,   \* process.env.GOOGLE_CREDENTIALS
  credentialsFile,  \* credentials.json
  tokenFile,        \* token.json
  oauth2Client,     \* GoogleAuth.oauth2Client: Null or the client
  credentials,      \* oauth2Client.credentials
  homegraph,        \* the dispatcher's homegraph handle is set
  initPc,           \* where initialize() stands: "start", "token", "done"
  initExit,         \* how initialize() left lines 25-49
  calls,            \* the tool calls, by slot
  outbound,         \* outbound calls made by this process
  exchanges,        \* code exchanges started so far
  granted,          \* TokenSets the provider has granted so far
  restarts,         \* restarts so far
  transport,        \* the entry point the process runs: index.ts, server.ts or function.ts
  shell             \* the network request the transport shell handled last

vars == <<envCredentials, credentialsFile, tokenFile, oauth2Client, credentials,
          homegraph, initPc, initExit, calls, outbound, exchanges, granted, restarts,
          transport, shell>>

\* A call slot.  pc: "idle", "exchange" (awaiting getToken), "open", "write"
\* (inside fs.writeFile), "done" (the handler has returned or thrown).
\* preAuth records isAuthenticated() when the call was received; outCalls,
\* setCreds and wrote record what the call did (outbound calls made,
\* setCredentials called, token.json opened for writing), and overlap whether
\* another exchange was in progress while its own was.
IdleCall ==
  [pc |-> "idle", name |-> "", args |-> NoArgs, result |-> NoResult,
   tokens |-> EmptyCredentials, exch |-> "none",
   preAuth |-> FALSE, outCalls |-> 0, setCreds |-> FALSE, wrote |-> FALSE,
   overlap |-> FALSE]

\* start(), lines 242-250: the transport is connected once initialize() has returned
Ready == initPc = "done"

Authenticated == IsAuthenticated(oauth2Client, credentials)

InProgress(c) == calls[c].pc \in {"exchange", "open", "write"}

Received(c, name, args) ==
  [IdleCall EXCEPT !.name = name, !.args = args, !.preAuth = Authenticated]

\* The response of a call is handed to the transport when its handler
\* returns: nothing else runs between the two.
Quiet == \A d \in Calls : calls[d].pc # "done"

\* no request of the transport shell so far
NoRequest == [auth |-> "none", stage |-> "none"]

\* What the Authorization header of a request holds: nothing, another text
\* than "Bearer <AUTH_TOKEN>", or that text.
AuthValues == {"missing", "wrong", "good"}

\* When the entry point lets tool calls in: index.ts connects the stdio
\* transport after `await this.auth.initialize()` (start, lines 244-250);
\* server.ts registers its connection handler after `await
\* mcpServer.initialize()` (lines 297-299); the constructor of function.ts
\* calls `this.initialize()` without awaiting it (lines 30-34), and the
\* function is exported at once.
Started ==
  CASE transport = "stdio" -> Ready
    [] transport = "http" -> Ready
    [] OTHER -> TRUE

\* The shell has handed a tools/call request to the dispatcher.  Over stdio
\* every request read is handed on.
Admitted == transport = "stdio" \/ shell.stage = "dispatch"

\* the shell's request once the dispatcher has taken it
Dispatched == IF transport = "stdio" THEN shell ELSE [shell EXCEPT !.stage = "handled"]

\* a call received takes the first free slot
CanInvoke(c) ==
  /\ Started
  /\ Admitted
  /\ Quiet
  /\ calls[c].pc = "idle"
  /\ \A d \in Calls : d < c => calls[d].pc # "idle"

Init ==
  /\ \E src \in SourceChoices : envCredentials = src[1] /\ credentialsFile = src[2]
  /\ tokenFile \in {AbsentFile, FileOf(<<Garbage>>), FileOf(Stringify(EmptyCredentials))}
  /\ oauth2Client = Null
  /\ credentials = EmptyCredentials
  /\ homegraph = FALSE
  /\ initPc = "start"
  /\ initExit = "none"
  /\ calls = [c \in Calls |-> IdleCall]
  /\ outbound = 0
  /\ exchanges = 0
  /\ granted = 0
  /\ restarts = 0
  /\ transport = "stdio"
  /\ shell = NoRequest

\* the deployments set GOOGLE_CREDENTIALS or leave the process without a credential
ShellSources == { <<"valid", "missing">>, <<"unset", "missing">> }

\* The network entry points, server.ts and function.ts.  token.json may hold
\* the TokenSet an earlier process stored.
ShellInit ==
  /\ \E src \in ShellSources : envCredentials = src[1] /\ credentialsFile = src[2]
  /\ \/ tokenFile = AbsentFile /\ granted = 0 /\ exchanges = 0
     \/ tokenFile = FileOf(Stringify(1)) /\ granted = 1 /\ exchanges = 1
  /\ oauth2Client = Null
  /\ credentials = EmptyCredentials
  /\ homegraph = FALSE
  /\ initPc = "start"
  /\ initExit = "none"
  /\ calls = [c \in Calls |-> IdleCall]
  /\ outbound = 0
  /\ restarts = 0
  /\ transport \in {"http", "function"}
  /\ shell = NoRequest

\* ------------------------------------------------------------- initialize()
\* lines 25-49: resolve the credential and build the client
InitializeClient ==
  /\ initPc = "start"
  /\ LET r == LoadClient(envCredentials, credentialsFile)
     IN /\ oauth2Client' = r.client
        /\ initExit' = r.exit
        /\ initPc' = IF r.client = Null THEN "done" ELSE "token"
  /\ credentials' = EmptyCredentials
  /\ UNCHANGED <<transport, shell, envCredentials, credentialsFile, tokenFile, homegraph, calls,
                 outbound, exchanges, granted, restarts>>

\* lines 51-57: restore token.json onto the client
InitializeToken ==
  /\ initPc = "token"
  /\ credentials' = RestoreToken(tokenFile)
  /\ initPc' = "done"
  /\ UNCHANGED <<transport, shell, envCredentials, credentialsFile, tokenFile, oauth2Client, homegraph,
                 initExit, calls, outbound, exchanges, granted, restarts>>

\* ------------------------------------------------------------- the tool calls that do not await
Finish(c, call, result) ==
  calls' = [calls EXCEPT ![c] = [call EXCEPT !.pc = "done", !.result = result]]

InvokeGetAuthUrlClears(c, args) ==
  /\ CanInvoke(c)
  /\ Finish(c, Received(c, "get_auth_url", args), GetAuthUrlResult(oauth2Client, credentials))
  /\ credentials' = EmptyCredentials
  /\ shell' = Dispatched
  /\ UNCHANGED <<transport, envCredentials, credentialsFile, tokenFile, oauth2Client,
                 homegraph, initPc, initExit, outbound, exchanges, granted, restarts>>

InvokeGetAuthUrlBuildsClient(c, args) ==
  /\ CanInvoke(c)
  /\ Finish(c, Received(c, "get_auth_url", args), GetAuthUrlResult(oauth2Client, credentials))
  /\ oauth2Client' = IF oauth2Client = Null THEN FileClient ELSE oauth2Client
  /\ shell' = Dispatched
  /\ UNCHANGED <<transport, envCredentials, credentialsFile, tokenFile, credentials,
                 homegraph, initPc, initExit, outbound, exchanges, granted, restarts>>

InvokeGetAuthUrl(c, args) ==
  /\ CanInvoke(c)
  /\ Finish(c, Received(c, "get_auth_url", args), GetAuthUrlResult(oauth2Client, credentials))
  /\ shell' = Dispatched
  /\ UNCHANGED <<transport, envCredentials, credentialsFile, tokenFile, oauth2Client, credentials,
                 homegraph, initPc, initExit, outbound, exchanges, granted, restarts>>

InvokeGated(c, name, args) ==
  /\ CanInvoke(c)
  /\ name \in GatedNames
  /\ Finish(c, Received(c, name, args), GatedResult(name, args, oauth2Client, credentials))
  /\ homegraph' = (homegraph \/ GatedReachesApi(name, args, oauth2Client, credentials))
  /\ shell' = Dispatched
  /\ UNCHANGED <<transport, envCredentials, credentialsFile, tokenFile, oauth2Client, credentials,
                 initPc, initExit, outbound, exchanges, granted, restarts>>

InvokeUnknown(c, name, args) ==
  /\ CanInvoke(c)
  /\ name \notin CatalogNames
  /\ Finish(c, Received(c, name, args), UnknownToolResult(name))
  /\ shell' = Dispatched
  /\ UNCHANGED <<transport, envCredentials, credentialsFile, tokenFile, oauth2Client, credentials,
                 homegraph, initPc, initExit, outbound, exchanges, granted, restarts>>

\* ------------------------------------------------------------- authenticate and getTokenFromCode
\* the failure the provider reports for a code, or a transport failure
ExchangeError(args) ==
  IF args["code"].s = "valid-code" THEN "request to https://oauth2.googleapis.com/token failed"
  ELSE "invalid_grant"

\* line 85: the credentials of the client once getToken has resolved with tokens
SetCredentialsSkipped(creds, tokens) == creds

SetCredentialsCleared(creds, tokens) == EmptyCredentials

SetCredentials(creds, tokens) == tokens

\* line 87: the text fs.writeFile is given
TokenText(creds, tokens) == Stringify(tokens)

\* lines 114-116 up to `await this.oauth2Client.getToken(code)`
InvokeAuthenticate(c, args) ==
  /\ CanInvoke(c)
  /\ LET start == AuthenticateStart(args, oauth2Client)
         call == Received(c, "authenticate", args)
         busy == {d \in Calls : InProgress(d)}
     IN CASE start = "invalid" ->
               /\ Finish(c, call, Envelope(ZodParse(AuthenticateSchema, args).val))
               /\ UNCHANGED <<outbound, exchanges>>
          [] start = "notconfigured" ->
               /\ Finish(c, [call EXCEPT !.exch = "failed"], Envelope(NotInitialized))
               /\ UNCHANGED <<outbound, exchanges>>
          [] OTHER ->
               /\ exchanges < MaxExchanges
               /\ calls' = [d \in Calls |->
                              IF d = c
                              THEN [call EXCEPT !.pc = "exchange", !.outCalls = 1,
                                                !.overlap = (busy # {})]
                              ELSE IF d \in busy THEN [calls[d] EXCEPT !.overlap = TRUE]
                              ELSE calls[d]]
               /\ outbound' = outbound + 1
               /\ exchanges' = exchanges + 1
  /\ shell' = Dispatched
  /\ UNCHANGED <<transport, envCredentials, credentialsFile, tokenFile, oauth2Client, credentials,
                 homegraph, initPc, initExit, granted, restarts>>

\* line 84 rejects: the provider refuses the code, or the request fails
ExchangeFailsRetries(c) ==
  /\ Quiet
  /\ calls[c].pc = "exchange"
  /\ calls[c].outCalls < 2
  /\ calls' = [calls EXCEPT ![c].outCalls = @ + 1]
  /\ outbound' = outbound + 1
  /\ UNCHANGED <<transport, shell, envCredentials, credentialsFile, tokenFile, oauth2Client, credentials,
                 homegraph, initPc, initExit, exchanges, granted, restarts>>

ExchangeFails(c) ==
  /\ Quiet
  /\ calls[c].pc = "exchange"
  /\ Finish(c, [calls[c] EXCEPT !.exch = "failed"], Envelope(ExchangeError(calls[c].args)))
  /\ UNCHANGED <<transport, shell, envCredentials, credentialsFile, tokenFile, oauth2Client, credentials,
                 homegraph, initPc, initExit, outbound, exchanges, granted, restarts>>

\* lines 84-85: the provider grants its next TokenSet, which is set on the client
ExchangeSucceeds(c) ==
  /\ Quiet
  /\ calls[c].pc = "exchange"
  /\ calls[c].args["code"].s = "valid-code"
  /\ granted' = granted + 1
  /\ credentials' = SetCredentials(credentials, granted + 1)
  /\ calls' = [calls EXCEPT ![c].pc = "open", ![c].tokens = granted + 1,
                            ![c].setCreds = TRUE]
  /\ UNCHANGED <<transport, shell, envCredentials, credentialsFile, tokenFile, oauth2Client, homegraph,
                 initPc, initExit, outbound, exchanges, restarts>>

\* line 87, fs.writeFile: the open fails and token.json is as it was
WriteOpenFails(c) ==
  /\ Quiet
  /\ calls[c].pc = "open"
  /\ Finish(c, [calls[c] EXCEPT !.exch = "failed"],
            Envelope("EACCES: permission denied, open token.json"))
  /\ UNCHANGED <<transport, shell, envCredentials, credentialsFile, tokenFile, oauth2Client, credentials,
                 homegraph, initPc, initExit, outbound, exchanges, granted, restarts>>

\* line 87, fs.writeFile: the open (flag 'w') creates or truncates token.json
WriteOpen(c) ==
  /\ Quiet
  /\ calls[c].pc = "open"
  /\ tokenFile' = FileOf(<<>>)
  /\ calls' = [calls EXCEPT ![c].pc = "write", ![c].wrote = TRUE]
  /\ UNCHANGED <<transport, shell, envCredentials, credentialsFile, oauth2Client, credentials, homegraph,
                 initPc, initExit, outbound, exchanges, granted, restarts>>

\* line 87, fs.writeFile: the write fails and token.json stays truncated
WriteFailsReopens(c) ==
  /\ Quiet
  /\ calls[c].pc = "write"
  /\ calls' = [calls EXCEPT ![c].pc = "open"]
  /\ UNCHANGED <<transport, shell, envCredentials, credentialsFile, tokenFile, oauth2Client, credentials,
                 homegraph, initPc, initExit, outbound, exchanges, granted, restarts>>

WriteFails(c) ==
  /\ Quiet
  /\ calls[c].pc = "write"
  /\ Finish(c, [calls[c] EXCEPT !.exch = "failed"],
            Envelope("ENOSPC: no space left on device, write"))
  /\ UNCHANGED <<transport, shell, envCredentials, credentialsFile, tokenFile, oauth2Client, credentials,
                 homegraph, initPc, initExit, outbound, exchanges, granted, restarts>>

\* line 87, fs.writeFile: the text is written at the start of the file;
\* getTokenFromCode returns and the handler goes on, lines 117-128
WriteReturns(c) ==
  /\ Quiet
  /\ calls[c].pc = "write"
  /\ tokenFile' = FileOf(WriteOver(tokenFile.data, TokenText(credentials, calls[c].tokens)))
  /\ homegraph' = TRUE
  /\ Finish(c, [calls[c] EXCEPT !.exch = "ok"], Text(AuthenticatedOk))
  /\ UNCHANGED <<transport, shell, envCredentials, credentialsFile, oauth2Client, credentials,
                 initPc, initExit, outbound, exchanges, granted, restarts>>

\* ------------------------------------------------------------- the environment
\* the caller takes the response of a finished call
Deliver(c) ==
  /\ calls[c].pc = "done"
  /\ calls' = [calls EXCEPT ![c] = IdleCall]
  /\ UNCHANGED <<transport, shell, envCredentials, credentialsFile, tokenFile, oauth2Client, credentials,
                 homegraph, initPc, initExit, outbound, exchanges, granted, restarts>>

\* The process stops (calls in flight are lost) and a new one is started:
\* GoogleHomeMCP and GoogleAuth are constructed again, the files stay, and
\* the operator may have changed the credential sources.
Restart(env, file) ==
  /\ Quiet
  /\ restarts < MaxRestarts
  /\ restarts' = restarts + 1
  /\ envCredentials' = env
  /\ credentialsFile' = file
  /\ oauth2Client' = Null
  /\ credentials' = EmptyCredentials
  /\ homegraph' = FALSE
  /\ initPc' = "start"
  /\ initExit' = "none"
  /\ calls' = [c \in Calls |-> IdleCall]
  /\ outbound' = 0
  /\ shell' = NoRequest
  /\ UNCHANGED <<tokenFile, exchanges, granted, transport>>

Next ==
  \/ InitializeClient
  \/ InitializeToken
  \/ \E c \in Calls, args \in ArgsFor("get_auth_url") : InvokeGetAuthUrl(c, args)
  \/ \E c \in Calls, name \in GatedNames : \E args \in ArgsFor(name) : InvokeGated(c, name, args)
  \/ \E c \in Calls, name \in ToolNames : \E args \in ArgsFor(name) : InvokeUnknown(c, name, args)
  \/ \E c \in Calls, args \in ArgsFor("authenticate") : InvokeAuthenticate(c, args)
  \/ \E c \in Calls : ExchangeFails(c)
  \/ \E c \in Calls : ExchangeSucceeds(c)
  \/ \E c \in Calls : WriteOpenFails(c)
  \/ \E c \in Calls : WriteOpen(c)
  \/ \E c \in Calls : WriteFails(c)
  \/ \E c \in Calls : WriteReturns(c)
  \/ \E c \in Calls : Deliver(c)
  \/ \E src \in SourceChoices : Restart(src[1], src[2])

Spec == Init /\ [][Next]_vars

\* ------------------------------------------------------------- the transport shells
CoreVars == <<envCredentials, credentialsFile, tokenFile, oauth2Client, credentials,
              homegraph, initPc, initExit, calls, outbound, exchanges, granted, restarts>>

HttpPaths == {"/health", "/mcp", "/other"}

\* server.ts, lines 269-284: GET /health is routed before the bearer check;
\* every other path is refused with 401 unless the header is the bearer
\* text, and then finds no route.
HttpRequest(auth, path) ==
  /\ transport = "http"
  /\ shell' = [auth |-> auth,
               stage |-> IF path = "/health" THEN "health"
                         ELSE IF auth # "good" THEN "401"
                         ELSE "404"]
  /\ UNCHANGED <<CoreVars, transport>>

\* server.ts, lines 291-331: the WebSocketServer takes the upgrade requests
\* of /mcp from the http server itself, so the middleware of lines 276-284
\* never sees them.  Once the connection handler is registered (line 299) a
\* connection is given a server of its own and the connection.ready message.
WsConnect(auth) ==
  /\ transport = "http"
  /\ shell' = [auth |-> auth, stage |-> IF Ready THEN "ws-ready" ELSE "ws-open"]
  /\ UNCHANGED <<CoreVars, transport>>

\* server.ts, lines 306-319: a message is answered with the fixed result
\* {message: 'MCP server connected'}, or logged if it is not JSON
WsMessage(json) ==
  /\ transport = "http"
  /\ shell.stage \in {"ws-ready", "ws-reply", "ws-logged"}
  /\ shell' = [shell EXCEPT !.stage = IF json THEN "ws-reply" ELSE "ws-logged"]
  /\ UNCHANGED <<CoreVars, transport>>

\* the requests sent to the function: method, path and the method of the body
Request(method, path, rpc) == [method |-> method, path |-> path, rpc |-> rpc]

FunctionRequests ==
  { Request("OPTIONS", "/", ""), Request("GET", "/health", ""),
    Request("POST", "/", "tools/list"), Request("POST", "/", "tools/call"),
    Request("POST", "/", "ping") }

\* function.ts, lines 256-265: handleRequest calls this.server.listTools()
\* and this.server.callTool(params) on the SDK's Server.  Either the SDK
\* routes these to the registered handlers, or the member is missing and
\* the call raises, which line 303 turns into a 500.
SdkOutcomes == {"routes", "raises"}

HandleRequest(rpc, sdk) ==
  IF rpc \notin {"tools/list", "tools/call"} \/ sdk = "raises" THEN "500"
  ELSE IF rpc = "tools/list" THEN "list"
  ELSE "dispatch"

\* function.ts, lines 272-308: OPTIONS is answered 204, then the bearer
\* check, then /health, then handleRequest(req.body)
FunctionRequest(auth, req, sdk) ==
  /\ transport = "function"
  /\ shell.stage # "dispatch"
  /\ LET stage == IF req.method = "OPTIONS" THEN "204"
                  ELSE IF auth # "good" THEN "401"
                  ELSE IF req.path = "/health" THEN "health"
                  ELSE HandleRequest(req.rpc, sdk)
     IN /\ stage = "dispatch" => (Quiet /\ \E c \in Calls : calls[c].pc = "idle")
        /\ shell' = [auth |-> auth, stage |-> stage]
  /\ UNCHANGED <<CoreVars, transport>>

\* the steps of a process behind a network shell, from its start on
ShellNext ==
  \/ InitializeClient
  \/ InitializeToken
  \/ \E c \in Calls, args \in ArgsFor("get_auth_url") : InvokeGetAuthUrl(c, args)
  \/ \E c \in Calls, name \in GatedNames : \E args \in ArgsFor(name) : InvokeGated(c, name, args)
  \/ \E c \in Calls, name \in ToolNames : \E args \in ArgsFor(name) : InvokeUnknown(c, name, args)
  \/ \E c \in Calls, args \in ArgsFor("authenticate") : InvokeAuthenticate(c, args)
  \/ \E c \in Calls : ExchangeFails(c)
  \/ \E c \in Calls : ExchangeSucceeds(c)
  \/ \E c \in Calls : WriteOpenFails(c)
  \/ \E c \in Calls : WriteOpen(c)
  \/ \E c \in Calls : WriteFails(c)
  \/ \E c \in Calls : WriteReturns(c)
  \/ \E c \in Calls : Deliver(c)
  \/ \E auth \in AuthValues, path \in HttpPaths : HttpRequest(auth, path)
  \/ \E auth \in AuthValues : WsConnect(auth)
  \/ \E json \in BOOLEAN : WsMessage(json)
  \/ \E auth \in AuthValues, req \in FunctionRequests, sdk \in SdkOutcomes :
        FunctionRequest(auth, req, sdk)

ShellSpec == ShellInit /\ [][ShellNext]_vars

\* The promise a call awaits is settled in the end (getToken resolves or
\* rejects, the open and the write of fs.writeFile succeed or fail), however
\* often other calls run in between, and a handler that has returned has its
\* response sent.
Settles(c) ==
  \/ ExchangeFails(c) \/ ExchangeSucceeds(c)
  \/ WriteOpenFails(c) \/ WriteOpen(c)
  \/ WriteFails(c) \/ WriteReturns(c)

FairSpec ==
  /\ Spec
  /\ \A c \in Calls : SF_vars(Settles(c))
  /\ \A c \in Calls : WF_vars(Deliver(c))

TypeOK ==
  /\ envCredentials \in EnvValues
  /\ credentialsFile \in FileValues
  /\ oauth2Client \in {Null, EnvClient, FileClient}
  /\ credentials \in {EmptyCredentials} \cup TokenIds
  /\ homegraph \in BOOLEAN
  /\ initPc \in {"start", "token", "done"}
  /\ exchanges \in 0..MaxExchanges
  /\ restarts \in 0..MaxRestarts
  /\ transport \in {"stdio", "http", "function"}
  /\ shell.auth \in AuthValues \cup {"none"}

\* ------------------------------------------------------------- properties
\* no call is pending: the manager is as the next call will find it
AtRest == \A c \in Calls : calls[c].pc = "idle"

Done(c) == calls[c].pc = "done"

\* the required argument of a tool is missing from the call's arguments
MissingRequired(c) ==
  \/ calls[c].name = "authenticate" /\ calls[c].args["code"].t = "undefined"
  \/ calls[c].name = "execute_command" /\ calls[c].args["command"].t = "undefined"
  \/ calls[c].name = "get_device_states" /\ calls[c].args["deviceIds"].t = "undefined"

\* the call made no outbound call, did not open token.json for writing and
\* did not set the client's credentials
NoSideEffect(c) ==
  /\ calls[c].outCalls = 0
  /\ ~calls[c].wrote
  /\ ~calls[c].setCreds

\* C1: a call of list_devices, execute_command, query_devices or
\* get_device_states received while isAuthenticated() is false returns the
\* single text "Error: Not authenticated. Please authenticate first.", whatever
\* its arguments, and makes no outbound call and no write of token.json.
C1_NotAuthenticatedGate ==
  \A c \in Calls :
    (Done(c) /\ calls[c].name \in GatedNames /\ ~calls[c].preAuth)
      => /\ calls[c].result = Text("Error: " \o NotAuthenticated)
         /\ calls[c].outCalls = 0
         /\ ~calls[c].wrote

C1_Witness ==
  \E c \in Calls :
    /\ Done(c)
    /\ calls[c].name = "get_device_states"
    /\ calls[c].args = NoArgs
    /\ oauth2Client # Null
    /\ ~calls[c].preAuth
    /\ calls[c].result = Text("Error: Not authenticated. Please authenticate first.")

ValidationFails(c) ==
  /\ calls[c].name = "authenticate" \/ (calls[c].name \in GatedNames /\ calls[c].preAuth)
  /\ \E f \in {SchemaOf(calls[c].name)[i] : i \in 1..Len(SchemaOf(calls[c].name))} :
       ~(\/ calls[c].args[f[1]].t = f[2]
         \/ calls[c].args[f[1]].t = "undefined" /\ f[3])

GateFails(c) == calls[c].name \in GatedNames /\ ~calls[c].preAuth

ExchangeFailed(c) ==
  calls[c].name = "authenticate" /\ calls[c].outCalls = 1 /\ calls[c].exch = "failed"

StoreErrors == {"EACCES: permission denied, open token.json",
                "ENOSPC: no space left on device, write"}

\* C4: every call of a catalog tool, in every authentication state and for
\* every outcome of the exchange and of the write of token.json, returns a
\* result of exactly one text block and never raises; when validation, the
\* authentication gate, the client lookup, the exchange or the write fails,
\* the text is "Error: " followed by the message of that failure.
C4_UniformEnvelope ==
  \A c \in Calls :
    (Done(c) /\ calls[c].name \in CatalogNames)
      => /\ calls[c].result.kind = "result"
         /\ Len(calls[c].result.content) = 1
         /\ GateFails(c) => calls[c].result.content[1] = "Error: " \o NotAuthenticated
         /\ ValidationFails(c)
              => /\ calls[c].result.content[1]
                      = "Error: " \o ZodParse(SchemaOf(calls[c].name), calls[c].args).val
                 /\ ZodParse(SchemaOf(calls[c].name), calls[c].args).val # ""
         /\ (/\ calls[c].name \in {"authenticate", "get_auth_url"}
             /\ ~ValidationFails(c)
             /\ oauth2Client = Null)
              => calls[c].result.content[1] = "Error: " \o NotInitialized
         /\ (ExchangeFailed(c) /\ calls[c].tokens = EmptyCredentials)
              => calls[c].result.content[1] \in {"Error: invalid_grant",
                   "Error: request to https://oauth2.googleapis.com/token failed"}
         /\ (ExchangeFailed(c) /\ calls[c].tokens # EmptyCredentials)
              => calls[c].result.content[1] \in {"Error: " \o m : m \in StoreErrors}

C4_Witness ==
  \E c \in Calls :
    /\ Done(c)
    /\ calls[c].name = "authenticate"
    /\ calls[c].wrote
    /\ calls[c].exch = "failed"
    /\ calls[c].result = Text("Error: ENOSPC: no space left on device, write")

C6_FailedExchangeLeavesState ==
  \A c \in Calls :
    (Done(c) /\ calls[c].name = "authenticate" /\ calls[c].exch = "failed" /\ ~calls[c].overlap)
      => /\ Authenticated = calls[c].preAuth
         /\ ~calls[c].setCreds
         /\ ~calls[c].wrote

\* a failed second exchange, run on its own after the first had stored its
\* TokenSet, that left token.json empty and the client on the new credentials
C6_TruncatedStore ==
  \E c \in Calls :
    /\ Done(c)
    /\ calls[c].exch = "failed"
    /\ ~calls[c].overlap
    /\ calls[c].wrote
    /\ calls[c].tokens = 2
    /\ credentials = 2
    /\ tokenFile = FileOf(<<>>)

\* token.json holds what a reader can use or what it held at the start: it is
\* absent, holds its initial text, or holds the whole text of one TokenSet
StoreWhole ==
  \/ tokenFile \in {AbsentFile, FileOf(<<Garbage>>), FileOf(Stringify(EmptyCredentials))}
  \/ \E t \in TokenIds : tokenFile = FileOf(Stringify(t))

BothGranted ==
  \A c \in Calls :
    /\ calls[c].name = "authenticate"
    /\ calls[c].overlap
    /\ calls[c].tokens \in TokenIds

\* C7: while two concurrent exchangeCode calls that the provider both granted
\* are running, and when the later of them has returned, token.json never
\* holds a torn or partial text, and in the end it holds the whole text of
\* the TokenSet of one of the two.
C7_NoTornStore ==
  /\ BothGranted => StoreWhole
  /\ \A c \in Calls :
       (/\ Done(c) /\ calls[c].exch = "ok" /\ calls[c].overlap
        /\ \A d \in Calls : ~InProgress(d))
         => \E t \in TokenIds : tokenFile = FileOf(Stringify(t))

\* both calls have written and returned, and token.json holds the start of
\* one TokenSet followed by the end of the other
C7_TornAtEnd ==
  \E c \in Calls :
    /\ Done(c) /\ calls[c].exch = "ok" /\ calls[c].overlap
    /\ \A d \in Calls : ~InProgress(d)
    /\ tokenFile = FileOf(<< <<2, 1>>, <<1, 2>> >>)

\* C8: no two exchangeCode calls are at once between the start of their
\* outbound exchange and the end of their write of token.json.
C8_Serialized == Cardinality({c \in Calls : InProgress(c)}) <= 1

\* the source resolves to a usable credential: the environment blob, or the
\* file when there is no blob
CredentialAvailable ==
  \/ envCredentials = "valid"
  \/ envCredentials = "unset" /\ credentialsFile = "valid"

TokenSetStored == \E t \in TokenIds : tokenFile = FileOf(Stringify(t))

\* C9: in a process that has finished initialize() with a credential source
\* available, if token.json holds a TokenSet written by an exchange then
\* isAuthenticated() is true; and no outbound call is made before
\* initialize() has finished.
C9_RestartRestoresSession ==
  /\ (initPc = "done" /\ CredentialAvailable /\ TokenSetStored) => Authenticated
  /\ initPc # "done" => outbound = 0

\* a restarted process, before any exchange of its own, is authenticated
\* from the token.json an earlier process wrote
C9_Witness ==
  /\ restarts >= 1
  /\ initPc = "done"
  /\ outbound = 0
  /\ \A c \in Calls : calls[c].pc = "idle"
  /\ CredentialAvailable
  /\ TokenSetStored
  /\ credentials = Parse(tokenFile.data)
  /\ Authenticated

\* C10: with no environment blob and no credential file, initialize() ends by
\* its plain return, the manager has no client, isAuthenticated() is false
\* and getAuthUrl() fails with "OAuth2 client not initialized", whatever
\* token.json holds.
C10_NoCredentialSource ==
  (initPc = "done" /\ envCredentials = "unset" /\ credentialsFile = "missing")
    => /\ initExit = "return"
       /\ oauth2Client = Null
       /\ ~Authenticated
       /\ GetAuthUrl(oauth2Client) = [ok |-> FALSE, val |-> "OAuth2 client not initialized"]

\* ... also when token.json holds a TokenSet an earlier process wrote
C10_Witness ==
  /\ initPc = "done"
  /\ envCredentials = "unset"
  /\ credentialsFile = "missing"
  /\ TokenSetStored
  /\ ~Authenticated

\* the sentence get_auth_url wraps the URL of a client in, lines 95-102
UrlSentence(client) ==
  Text("Please visit this URL to authorize the application:\n" \o GetAuthUrl(client).val)

\* C11 as stated: get_auth_url returns "Already authenticated with Google."
\* when isAuthenticated() is true and in every other state the authorization
\* URL wrapped in its sentence, and has no side effect.
C11_Original ==
  \A c \in Calls :
    (Done(c) /\ calls[c].name = "get_auth_url")
      => /\ IF calls[c].preAuth THEN calls[c].result = Text(AlreadyAuthenticated)
            ELSE \E k \in {EnvClient, FileClient} : calls[c].result = UrlSentence(k)
         /\ NoSideEffect(c)

\* C11 amended: get_auth_url, whatever its arguments, returns "Already
\* authenticated with Google." when isAuthenticated() is true, the URL of the
\* loaded client wrapped in its sentence when a client exists and
\* isAuthenticated() is false, and "Error: OAuth2 client not initialized" when
\* there is no client; in no case does it make an outbound call, set
\* credentials, write token.json or change isAuthenticated().
C11_GetAuthUrl ==
  \A c \in Calls :
    (Done(c) /\ calls[c].name = "get_auth_url")
      => /\ calls[c].result
              = (IF calls[c].preAuth THEN Text(AlreadyAuthenticated)
                 ELSE IF oauth2Client # Null THEN UrlSentence(oauth2Client)
                 ELSE Text("Error: OAuth2 client not initialized"))
         /\ NoSideEffect(c)
         /\ Authenticated = calls[c].preAuth

\* get_auth_url called with an argument it does not read, by an
\* authenticated caller whose TokenSet is stored
C11_Witness ==
  \E c \in Calls :
    /\ Done(c)
    /\ calls[c].name = "get_auth_url"
    /\ calls[c].args = ValidCode
    /\ calls[c].preAuth
    /\ TokenSetStored
    /\ calls[c].result = Text("Already authenticated with Google.")

\* C12: authenticate is not gated: a call with a string code on a manager
\* that has a client starts the exchange whether or not isAuthenticated() is
\* true; the call returns "Successfully authenticated with Google!" exactly
\* when getTokenFromCode returned, and otherwise an "Error: " text carrying
\* the failure of the exchange or of the write.
C12_AuthenticateUngated ==
  \A c \in Calls :
    (Done(c) /\ calls[c].name = "authenticate")
      => /\ (calls[c].result = Text(AuthenticatedOk)) <=> (calls[c].exch = "ok")
         /\ (ZodParse(AuthenticateSchema, calls[c].args).ok /\ oauth2Client # Null)
              => /\ calls[c].outCalls = 1
                 /\ calls[c].exch \in {"ok", "failed"}
         /\ (calls[c].outCalls = 1 /\ calls[c].exch = "failed")
              => calls[c].result.content[1]
                   \in {"Error: " \o m :
                          m \in StoreErrors \cup {"invalid_grant",
                                  "request to https://oauth2.googleapis.com/token failed"}}

\* an exchange started while isAuthenticated() was false that the provider refused
C12_Witness ==
  \E c \in Calls :
    /\ Done(c)
    /\ calls[c].name = "authenticate"
    /\ ~calls[c].preAuth
    /\ calls[c].outCalls = 1
    /\ calls[c].args = ExpiredCode
    /\ calls[c].result = Text("Error: invalid_grant")

\* a step of the running process, as opposed to the start of a new one
SameProcess == restarts' = restarts

\* C13: within one process, no step takes isAuthenticated() from true to
\* false: not a call of get_auth_url or of a gated tool, nor any step of a
\* call of authenticate, whether its exchange or its write succeeds or fails.
C13_AuthenticatedStays ==
  [][(Authenticated /\ SameProcess) => Authenticated']_vars

\* an exchange the provider refused, made by an authenticated caller, has
\* returned and isAuthenticated() is still true
C13_Witness ==
  \E c \in Calls :
    /\ Done(c)
    /\ calls[c].name = "authenticate"
    /\ calls[c].preAuth
    /\ calls[c].exch = "failed"
    /\ calls[c].result = Text("Error: invalid_grant")
    /\ Authenticated

\* call c is received and returns in this step
Returns(c) == calls[c].pc = "idle" /\ calls'[c].pc = "done"

\* this step is a step of getTokenFromCode past its first await
ExchangeStep ==
  \E c \in Calls :
    /\ calls[c].name = "authenticate"
    /\ InProgress(c)
    /\ calls'[c].pc # calls[c].pc

\* C14: once initialize() has finished, the client's credentials and
\* token.json change only in a step of getTokenFromCode: a call of
\* get_auth_url, list_devices, execute_command, query_devices or
\* get_device_states changes neither, in any state, and getAuthUrl, getClient
\* and isAuthenticated are functions of the state that change nothing.
C14_OnlyExchangeWrites ==
  [][/\ (Ready /\ SameProcess /\ ~ExchangeStep) => UNCHANGED <<credentials, tokenFile>>
     /\ \A c \in Calls :
          (Returns(c) /\ calls'[c].name \in GatedNames \cup {"get_auth_url"})
            => UNCHANGED <<credentials, tokenFile, oauth2Client>>]_vars

\* execute_command has run for an authenticated caller whose TokenSet is the
\* one stored
C14_Witness ==
  \E c \in Calls :
    /\ Done(c)
    /\ calls[c].name = "execute_command"
    /\ calls[c].preAuth
    /\ TokenSetStored
    /\ credentials = Parse(tokenFile.data)
    /\ calls[c].result = Text(StubText("execute_command", calls[c].args))

\* C15: once initialize() is past the credential resolution, a usable
\* environment blob has given the client and credentials.json was not used,
\* whatever it holds; with no blob a usable credentials.json has given the
\* client; a blob that is set is never passed over for the file; and
\* initialize() has left by building the client, by its plain return or
\* through its outer catch, never by raising, for every credential source and
\* every content of token.json.
C15_ResolutionOrder ==
  initPc # "start"
    => /\ envCredentials = "valid" => (oauth2Client = EnvClient /\ initExit = "none")
       /\ (envCredentials = "unset" /\ credentialsFile = "valid")
            => (oauth2Client = FileClient /\ initExit = "none")
       /\ envCredentials # "unset" => oauth2Client # FileClient
       /\ initExit \in {"none", "return", "caught"}
       /\ (oauth2Client = Null) <=> (initExit # "none")

\* both sources are usable and the client is the one of the environment blob
C15_Witness ==
  /\ initPc = "done"
  /\ envCredentials = "valid"
  /\ credentialsFile = "valid"
  /\ oauth2Client = EnvClient

\* C16: when initialize() has built the client and token.json is missing or
\* does not parse, the step that ends initialize() leaves the client in
\* place, getAuthUrl() succeeding and isAuthenticated() false.
C16_UnreadableStore ==
  [][(initPc = "token" /\ initPc' = "done" /\ ~TokenReadable(tokenFile))
       => /\ oauth2Client' # Null
          /\ oauth2Client' = oauth2Client
          /\ GetAuthUrl(oauth2Client').ok
          /\ ~Authenticated'
          /\ UNCHANGED <<tokenFile, outbound>>]_vars

\* a process started on a token.json that a failed write left empty
C16_Witness ==
  /\ restarts >= 1
  /\ initPc = "done"
  /\ oauth2Client # Null
  /\ tokenFile = FileOf(<<>>)
  /\ outbound = 0
  /\ \A c \in Calls : calls[c].pc = "idle"
  /\ ~Authenticated

\* the authorization URL of a client, written out
OfflineUrl(client) ==
  "https://accounts.google.com/o/oauth2/v2/auth?access_type=offline"
    \o "&scope=https://www.googleapis.com/auth/homegraph"
    \o " https://www.googleapis.com/auth/assistant-sdk-prototype"
    \o "&response_type=code&client_id=" \o client

\* C17: in every state of a manager that has a client, whatever the
\* credentials it holds and whatever calls were made before, getAuthUrl()
\* returns the one URL that belongs to the loaded credential, which asks for
\* access_type=offline and for both scopes; a call of get_auth_url that
\* returns it makes no outbound call, sets no credentials and writes nothing.
C17_AuthUrlPure ==
  /\ oauth2Client # Null
       => GetAuthUrl(oauth2Client) = [ok |-> TRUE, val |-> OfflineUrl(oauth2Client)]
  /\ \A c \in Calls :
       (Done(c) /\ calls[c].name = "get_auth_url" /\ ~calls[c].preAuth /\ oauth2Client # Null)
         => /\ calls[c].result
                 = Text("Please visit this URL to authorize the application:\n"
                        \o OfflineUrl(oauth2Client))
            /\ NoSideEffect(c)

\* get_auth_url after a restart and a refused exchange, on the client of the
\* environment blob
C17_Witness ==
  \E c \in Calls :
    /\ Done(c)
    /\ calls[c].name = "get_auth_url"
    /\ ~calls[c].preAuth
    /\ oauth2Client = EnvClient
    /\ restarts >= 1
    /\ exchanges >= 1
    /\ calls[c].result
         = Text("Please visit this URL to authorize the application:\n"
                \o OfflineUrl(EnvClient))

\* call c of authenticate, with a code that parses, is received in this step
ReceivesCode(c) ==
  /\ calls[c].pc = "idle"
  /\ calls'[c].pc # "idle"
  /\ calls'[c].name = "authenticate"
  /\ ZodParse(AuthenticateSchema, calls'[c].args).ok

\* C18: while the manager has no client, getClient() fails with "OAuth2
\* client not initialized", and a call of authenticate with a code returns in
\* the step it is received with the text "Error: OAuth2 client not
\* initialized", having made no outbound call and no write of token.json, and
\* leaves the manager without a client and isAuthenticated() false.
C18_UnconfiguredExchange ==
  [][\A c \in Calls :
       (oauth2Client = Null /\ ReceivesCode(c))
         => /\ GetClient(oauth2Client) = [ok |-> FALSE, val |-> NotInitialized]
            /\ calls'[c].pc = "done"
            /\ calls'[c].exch = "failed"
            /\ calls'[c].result = Text("Error: OAuth2 client not initialized")
            /\ calls'[c].outCalls = 0
            /\ UNCHANGED <<outbound, tokenFile, credentials, oauth2Client, homegraph>>
            /\ ~Authenticated']_vars

\* authenticate with a valid code on a manager without a client, while
\* token.json holds a TokenSet
C18_Witness ==
  \E c \in Calls :
    /\ Done(c)
    /\ calls[c].name = "authenticate"
    /\ calls[c].args = ValidCode
    /\ oauth2Client = Null
    /\ TokenSetStored
    /\ calls[c].result = Text("Error: OAuth2 client not initialized")

\* the arguments of call c do not pass the schema of its tool
ArgsInvalid(c) == ~ZodParse(SchemaOf(calls[c].name), calls[c].args).ok

ReceivesCall(c) ==
  /\ calls[c].pc = "idle"
  /\ calls'[c].pc # "idle"
  /\ calls'[c].name \in CatalogNames

C20_ReadsPublished ==
  \A r \in Calls, w \in Calls :
    (/\ Done(r)
     /\ calls[r].name \in GatedNames
     /\ calls[r].preAuth
     /\ calls[w].name = "authenticate"
     /\ ~calls[w].preAuth
     /\ calls[w].tokens # EmptyCredentials
     /\ credentials = calls[w].tokens)
      => (Done(w) /\ calls[w].exch = "ok")

\* list_devices was let through while the exchange that made the process
\* authenticated had not yet opened token.json
C20_Unpublished ==
  \E r \in Calls, w \in Calls :
    /\ Done(r)
    /\ calls[r].name = "list_devices"
    /\ calls[r].result = Text("Device listing would be implemented here")
    /\ calls[w].pc = "open"
    /\ ~calls[w].preAuth
    /\ credentials = calls[w].tokens
    /\ ~TokenSetStored

\* ------------------------------------------------------------- the three transports
\* What a call-tool handler does up to its first await, as a function of the
\* tool name, the arguments and the manager: the result it returns (NoResult
\* when it goes on to await getTokenFromCode), whether it reaches the
\* creation of the homegraph handle, and whether it starts the exchange.
Outcome(result, api, exchange) ==
  [result |-> result, homegraph |-> api, exchange |-> exchange]

\* index.ts, lines 87-239
IndexCallTool(name, args, client, creds) ==
  CASE name = "get_auth_url" -> Outcome(GetAuthUrlResult(client, creds), FALSE, FALSE)
    [] name = "authenticate" ->
         LET start == AuthenticateStart(args, client)
         IN CASE start = "invalid" ->
                   Outcome(Envelope(ZodParse(AuthenticateSchema, args).val), FALSE, FALSE)
              [] start = "notconfigured" -> Outcome(Envelope(NotInitialized), FALSE, FALSE)
              [] OTHER -> Outcome(NoResult, FALSE, TRUE)
    [] name \in GatedNames ->
         Outcome(GatedResult(name, args, client, creds),
                 GatedReachesApi(name, args, client, creds), FALSE)
    [] OTHER -> Outcome(UnknownToolResult(name), FALSE, FALSE)

\* server.ts, lines 96-248: GoogleHomeMCPServer.setupHandlers, with the
\* schemas of lines 18-29
ServerCallTool(name, args, client, creds) ==
  LET authed == client # Null /\ HasAccessToken(creds)
      Fail(msg) == Outcome(Text("Error: " \o msg), FALSE, FALSE)
      Parsed(schema) == ZodParse(schema, args)
  IN CASE name = "get_auth_url" ->
            IF ~authed
            THEN IF client = Null THEN Fail("OAuth2 client not initialized")
                 ELSE Outcome(Text("Please visit this URL to authorize the application:\n"
                                   \o GetAuthUrl(client).val), FALSE, FALSE)
            ELSE Outcome(Text("Already authenticated with Google."), FALSE, FALSE)
       [] name = "authenticate" ->
            IF ~Parsed(<< <<"code", "string", FALSE>> >>).ok
            THEN Fail(Parsed(<< <<"code", "string", FALSE>> >>).val)
            ELSE IF client = Null THEN Fail("OAuth2 client not initialized")
            ELSE Outcome(NoResult, FALSE, TRUE)
       [] name = "execute_command" ->
            IF ~authed THEN Fail("Not authenticated. Please authenticate first.")
            ELSE IF ~Parsed(ExecuteCommandSchema).ok THEN Fail(Parsed(ExecuteCommandSchema).val)
            ELSE Outcome(Text("Command \"" \o args["command"].s
                              \o "\" would be executed on devices: "
                              \o (IF args["devices"].t = "array"
                                     /\ Join(args["devices"].a, ", ") # ""
                                  THEN Join(args["devices"].a, ", ") ELSE "all devices")),
                         TRUE, FALSE)
       [] name = "query_devices" ->
            IF ~authed THEN Fail("Not authenticated. Please authenticate first.")
            ELSE IF ~Parsed(QueryDevicesSchema).ok THEN Fail(Parsed(QueryDevicesSchema).val)
            ELSE Outcome(Text("Querying devices: "
                              \o (IF args["devices"].t = "array"
                                     /\ Join(args["devices"].a, ", ") # ""
                                  THEN Join(args["devices"].a, ", ") ELSE "all devices")),
                         TRUE, FALSE)
       [] name = "get_device_states" ->
            IF ~authed THEN Fail("Not authenticated. Please authenticate first.")
            ELSE IF ~Parsed(GetDeviceStatesSchema).ok
            THEN Fail(Parsed(GetDeviceStatesSchema).val)
            ELSE Outcome(Text("Getting states for devices: "
                              \o Join(args["deviceIds"].a, ", ")), TRUE, FALSE)
       [] name = "list_devices" ->
            IF ~authed THEN Fail("Not authenticated. Please authenticate first.")
            ELSE Outcome(Text("Device listing would be implemented here"), TRUE, FALSE)
       [] OTHER -> Fail("Unknown tool: " \o name)

\* function.ts, lines 101-253: GoogleHomeMCPFunction.setupHandlers, with the
\* schemas of lines 12-23; each gated case is the same three statements
FunctionCallTool(name, args, client, creds) ==
  LET authed == client # Null /\ HasAccessToken(creds)
      Fail(msg) == Outcome(Text("Error: " \o msg), FALSE, FALSE)
      Devices == IF args["devices"].t = "array" /\ Join(args["devices"].a, ", ") # ""
                 THEN Join(args["devices"].a, ", ") ELSE "all devices"
      Gated(schema, text) ==
        IF ~authed THEN Fail("Not authenticated. Please authenticate first.")
        ELSE IF ~ZodParse(schema, args).ok THEN Fail(ZodParse(schema, args).val)
        ELSE Outcome(Text(text), TRUE, FALSE)
  IN CASE name = "get_auth_url" ->
            IF authed THEN Outcome(Text("Already authenticated with Google."), FALSE, FALSE)
            ELSE IF client = Null THEN Fail("OAuth2 client not initialized")
            ELSE Outcome(Text("Please visit this URL to authorize the application:\n"
                              \o GetAuthUrl(client).val), FALSE, FALSE)
       [] name = "authenticate" ->
            IF ~ZodParse(<< <<"code", "string", FALSE>> >>, args).ok
            THEN Fail(ZodParse(<< <<"code", "string", FALSE>> >>, args).val)
            ELSE IF client = Null THEN Fail("OAuth2 client not initialized")
            ELSE Outcome(NoResult, FALSE, TRUE)
       [] name = "execute_command" ->
            Gated(ExecuteCommandSchema,
                  "Command \"" \o args["command"].s \o "\" would be executed on devices: "
                    \o Devices)
       [] name = "query_devices" -> Gated(QueryDevicesSchema, "Querying devices: " \o Devices)
       [] name = "get_device_states" ->
            Gated(GetDeviceStatesSchema,
                  "Getting states for devices: " \o Join(args["deviceIds"].a, ", "))
       [] name = "list_devices" -> Gated(<<>>, "Device listing would be implemented here")
       [] OTHER -> Fail("Unknown tool: " \o name)

\* the names the list-tools handlers of server.ts (lines 57-94) and
\* function.ts (lines 62-99) return, in their order
ServerCatalog == <<"execute_command", "query_devices", "get_device_states",
                   "list_devices", "get_auth_url", "authenticate">>
FunctionCatalog == <<"execute_command", "query_devices", "get_device_states",
                     "list_devices", "get_auth_url", "authenticate">>

\* C21: in every state a call can find the manager in, for every tool name and every
\* arguments mapping, the call-tool handlers of index.ts, server.ts and
\* function.ts return the same result and make the same changes (creation of
\* the homegraph handle, start of the exchange), the running handler returns
\* what they compute, and the three list-tools handlers return the same catalog.
C21_SameDispatch ==
  /\ AtRest =>
       \A name \in ToolNames :
         \A args \in ArgsFor(name) :
           /\ ServerCallTool(name, args, oauth2Client, credentials)
                = IndexCallTool(name, args, oauth2Client, credentials)
           /\ FunctionCallTool(name, args, oauth2Client, credentials)
                = IndexCallTool(name, args, oauth2Client, credentials)
  /\ \A c \in Calls :
       (Done(c) /\ calls[c].name # "authenticate")
         => calls[c].result
              = ServerCallTool(calls[c].name, calls[c].args, oauth2Client, credentials).result
  /\ ServerCatalog = Catalog
  /\ FunctionCatalog = Catalog

\* execute_command on named devices has run for an authenticated caller, and
\* the handler of function.ts computes the text that was returned
C21_Witness ==
  \E c \in Calls :
    /\ Done(c)
    /\ calls[c].name = "execute_command"
    /\ calls[c].args = CommandOnDevices
    /\ Authenticated
    /\ calls[c].result
         = Text("Command \"lights on\" would be executed on devices: lamp, tv")
    /\ FunctionCallTool("execute_command", CommandOnDevices, oauth2Client, credentials).result
         = calls[c].result

\* call c, of any name, is received in this step
Receives(c) == calls[c].pc = "idle" /\ calls'[c].pc # "idle"

\* C22: the count of outbound calls of a process rises only by one, in the
\* step that receives a call of authenticate with a string code on a manager
\* that has a client; a call never makes a second outbound call, whatever the
\* outcome of the first; every other call makes none; and initialize() makes
\* none.
C22_NoRetry ==
  [][/\ (SameProcess /\ outbound' # outbound)
          => /\ outbound' = outbound + 1
             /\ \E c \in Calls :
                  ReceivesCode(c) /\ oauth2Client # Null /\ calls'[c].outCalls = 1
     /\ \A c \in Calls :
          /\ calls'[c].outCalls <= 1
          /\ (calls[c].pc # "idle" /\ SameProcess)
               => calls'[c].outCalls \in {0, calls[c].outCalls}
          /\ (Receives(c) /\ ~(ReceivesCode(c) /\ oauth2Client # Null))
               => (calls'[c].outCalls = 0 /\ outbound' = outbound)
     /\ (initPc # "done" /\ SameProcess) => (outbound = 0 /\ outbound' = 0)]_vars

\* an exchange whose request failed in transport has returned its error
\* after the one outbound call
C22_Witness ==
  \E c \in Calls :
    /\ Done(c)
    /\ calls[c].name = "authenticate"
    /\ calls[c].result = Text("Error: request to https://oauth2.googleapis.com/token failed")
    /\ calls[c].outCalls = 1
    /\ outbound = 1

\* the stages of a call of authenticate, in their order
StageRank(pc) ==
  CASE pc = "idle" -> 0
    [] pc = "exchange" -> 1
    [] pc = "open" -> 2
    [] pc = "write" -> 3
    [] OTHER -> 4

\* C23: a call moves forward through its stages only, each at most once,
\* until it has returned, and, given that every promise it awaits is settled
\* in the end, a call that awaits the exchange or the write of token.json
\* eventually returns a result (or the process is stopped), whether the
\* exchange and the write succeed or fail.
C23_Terminates ==
  /\ [][\A c \in Calls :
          (calls'[c].pc # calls[c].pc /\ calls'[c].pc # "idle")
            => StageRank(calls'[c].pc) > StageRank(calls[c].pc)]_vars
  /\ \A c \in Calls :
       InProgress(c)
         ~> (\/ Done(c) /\ calls[c].result.kind = "result"
             \/ calls[c].pc = "idle")

\* a call that went through the exchange, the open and the failed write has
\* returned while another call was still awaiting its exchange
C23_Witness ==
  \E c \in Calls, d \in Calls :
    /\ Done(c)
    /\ calls[c].name = "authenticate"
    /\ calls[c].wrote
    /\ calls[c].exch = "failed"
    /\ calls[d].pc = "exchange"

\* ------------------------------------------------------------- catalog and dispatcher
\* index.ts, lines 48-85: the handler of ListToolsRequestSchema reads nothing
ListTools(client, creds) == Catalog

\* index.ts, lines 91-227: the case labels of the switch
SwitchCases ==
  {"get_auth_url", "authenticate", "execute_command", "query_devices",
   "get_device_states", "list_devices"}

\* names a caller may send that are no case label
ProbeNames == {"unknown_op", "", "Authenticate", "list_devices "}

\* the switch takes its default branch, line 226
IsUnknown(name, result) == result = Envelope("Unknown tool: " \o name)

\* C25: in every state the listing is the six operations get_auth_url,
\* authenticate, list_devices, execute_command, query_devices and
\* get_device_states, each once, whatever the authentication state, and in
\* every state a call can find the manager in a name is dispatched to a case of its own, not to the default branch, exactly
\* if it is listed; so is every call that has returned.
C25_CatalogIsDispatcher ==
  LET listed == ListTools(oauth2Client, credentials)
      names == {listed[i] : i \in 1..Len(listed)}
  IN /\ Len(listed) = 6
     /\ names = {"get_auth_url", "authenticate", "list_devices", "execute_command",
                 "query_devices", "get_device_states"}
     /\ names = SwitchCases
     /\ AtRest =>
          \A name \in ToolNames \cup ProbeNames :
            \A args \in ArgsFor(name) :
              IsUnknown(name, IndexCallTool(name, args, oauth2Client, credentials).result)
                <=> name \notin names
     /\ \A c \in Calls :
          Done(c) => (IsUnknown(calls[c].name, calls[c].result) <=> calls[c].name \notin names)

\* on an authenticated manager a call of a name that is not listed has taken
\* the default branch, and list_devices would take its own case
C25_Witness ==
  \E c \in Calls :
    /\ Done(c)
    /\ Authenticated
    /\ calls[c].name \notin SwitchCases
    /\ IsUnknown(calls[c].name, calls[c].result)
    /\ ~IsUnknown("list_devices",
                  IndexCallTool("list_devices", NoArgs, oauth2Client, credentials).result)

\* ------------------------------------------------------------- the network shells
Unauthorized == shell.auth \in {"missing", "wrong"}

\* C24: in both network transports a request whose Authorization header is
\* missing or is not the bearer text is rejected before it reaches the core,
\* on every HTTP path and on the /mcp WebSocket endpoint.  The health probe
\* and the CORS preflight, which carry no call, are left aside.
C24_Rejected ==
  Unauthorized => shell.stage \in {"401", "health", "204"}

\* what does hold: no request without the bearer text is handed to the
\* list-tools or call-tool handlers
C24_NoCoreHandling ==
  Unauthorized => shell.stage \notin {"list", "dispatch", "handled"}

\* a WebSocket client without the bearer text has been sent connection.ready
\* and an answer to its message
C24_AcceptedUnchecked ==
  /\ transport = "http"
  /\ Unauthorized
  /\ shell.stage = "ws-reply"

\* C26: in every transport initialize() has completed before a tool call is
\* dispatched: no call is received, in progress or returned while
\* initialize() still runs.
C26_InitializedBeforeDispatch ==
  (\E c \in Calls : calls[c].pc # "idle") => Ready

\* function.ts: get_auth_url was answered "OAuth2 client not initialized"
\* while initialize() had not yet read the GOOGLE_CREDENTIALS that are set
C26_ObservedUninitialized ==
  \E c \in Calls :
    /\ transport = "function"
    /\ envCredentials = "valid"
    /\ initPc = "start"
    /\ Done(c)
    /\ calls[c].name = "get_auth_url"
    /\ calls[c].result = Envelope(NotInitialized)

\* function.ts: a gated call was refused as not authenticated while
\* initialize() had not yet restored the TokenSet that token.json holds
C26_ObservedUnauthenticated ==
  \E c \in Calls :
    /\ transport = "function"
    /\ initPc = "token"
    /\ TokenReadable(tokenFile) /\ HasAccessToken(Parse(tokenFile.data))
    /\ Done(c)
    /\ calls[c].name = "list_devices"
    /\ calls[c].result = Envelope(NotAuthenticated)

\* ------------------------------------------------------------- memory and store
\* no exchange is in progress, and this process has started one
QuiescentAfterExchange ==
  /\ Ready
  /\ \A c \in Calls : ~InProgress(c)
  /\ outbound >= 1

\* C27: in every quiescent state reached after at least one exchange attempt
\* the credentials of the OAuth2 client are the TokenSet that token.json
\* holds, the one a restart would restore.
C27_MemoryIsStore ==
  QuiescentAfterExchange => credentials = RestoreToken(tokenFile)

\* two exchanges that both succeeded, with both writes done: the client holds
\* the TokenSet granted last while token.json does not restore to it
C27_StoreBehindMemory ==
  /\ QuiescentAfterExchange
  /\ granted = 2
  /\ credentials = 2
  /\ RestoreToken(tokenFile) # 2
  /\ \E c \in Calls : Done(c) /\ calls[c].exch = "ok" /\ calls[c].tokens = 1

\* ------------------------------------------------------------- the unconfigured manager
Unconfigured == Ready /\ oauth2Client = Null

\* C28: once initialize() has ended without a client, no tool call creates
\* one or makes isAuthenticated() true: every step of the process leaves the
\* manager without client and with the credentials it had, starts no
\* exchange, and a call of get_auth_url or authenticate received in such a
\* state returns at once an "Error: " text, the not-initialized one unless the
\* arguments of authenticate are refused first.
C28_UnconfiguredAbsorbing ==
  [][(Unconfigured /\ SameProcess)
       => /\ Unconfigured'
          /\ ~Authenticated'
          /\ UNCHANGED <<credentials, outbound, tokenFile>>
          /\ \A c \in Calls :
               (Receives(c) /\ calls'[c].name \in {"get_auth_url", "authenticate"})
                 => /\ calls'[c].pc = "done"
                    /\ calls'[c].result
                         \in {Envelope(NotInitialized),
                              Envelope(ZodParse(AuthenticateSchema, calls'[c].args).val)}
                    /\ calls'[c].name = "get_auth_url"
                         => calls'[c].result = Text("Error: OAuth2 client not initialized")]_vars

\* after a restart that left the process without a credential, while
\* token.json holds a TokenSet, get_auth_url has returned the error
C28_Witness ==
  \E c \in Calls :
    /\ Unconfigured
    /\ restarts = 1
    /\ TokenSetStored
    /\ Done(c)
    /\ calls[c].name = "get_auth_url"
    /\ calls[c].result = Text("Error: OAuth2 client not initialized")

\* GOOGLE_CREDENTIALS is set to a text that does not parse, or that parses to
\* an object with neither `installed` nor `web`
BlobUnusable == envCredentials \in {"notjson", "noclient"}

\* C29: when GOOGLE_CREDENTIALS is set but unusable, initialize() ends in one
\* step through its outer catch, without raising: credentials.json is not
\* turned to, no client is built, token.json is not read (initialize() never
\* stands at the token restore) and the manager is unconfigured and not
\* authenticated, whatever credentials.json and token.json hold.
C29_UnusableBlob ==
  (BlobUnusable /\ initPc # "start")
    => /\ initPc = "done"
       /\ initExit = "caught"
       /\ oauth2Client = Null
       /\ credentials = EmptyCredentials
       /\ ~Authenticated
       /\ LoadClient(envCredentials, "valid") = [client |-> Null, exit |-> "caught"]

\* initialize() has ended on an unusable blob although credentials.json is
\* valid and token.json holds the TokenSet of an earlier exchange
C29_Witness ==
  /\ BlobUnusable
  /\ initPc = "done"
  /\ credentialsFile = "valid"
  /\ TokenSetStored
  /\ restarts = 1
  /\ oauth2Client = Null

====
